---- MODULE Spec2Model ----
(***************************************************************************)
(* SQLQueryExecutionProcess (sql-editor/SqlResultTabs): a Deferred result  *)
(* driven by start() -- submit, poll loop, serialized remote cancel -- and *)
(* by cancel(), which a caller may invoke at any suspension point of       *)
(* start().  Every action is the code of start() from one await to the     *)
(* next, or the whole of cancel().                                         *)
(***************************************************************************)
EXTENDS Integers, Sequences, FiniteSets, TLC

\* ---------------------------------------------------------------- bounds
MaxStatusCalls == 3      \* get-status calls issued in one lifecycle
MaxCancelCalls == 3      \* invocations of cancel() in one lifecycle

\* ------------------------------------------------------------- constants
None == "none"

PENDING    == "PENDING"
CANCELLING == "CANCELLING"
RESOLVED   == "RESOLVED"
REJECTED   == "REJECTED"
CANCELLED  == "CANCELLED"

EDeferredState == {PENDING, CANCELLING, RESOLVED, REJECTED, CANCELLED}

TaskIds  == {"task1"}
Errors   == {"E"}
Results  == {"R1", "R2"}
Statuses == {"S"}

\* AsyncTaskInfo as the remote returns it: error, result and status optional
AsyncTaskInfo ==
  [id : TaskIds, running : BOOLEAN, error : Errors \cup {None},
   result : Results \cup {None}, status : Statuses \cup {None}]

\* What the remote answers in the lifecycle: a task still running carries no
\* error, result or status (applyResult reads none of them when running);
\* a task not running carries any combination of the three.
RemoteAnswers ==
  {i \in AsyncTaskInfo :
     i.running => (i.error = None /\ i.result = None /\ i.status = None)}

NoInfo == [id |-> None, running |-> FALSE, error |-> None, result |-> None, status |-> None]

\* faults thrown by the transport (a rejected gql call)
NetErrors == {"NetErr"}

VARIABLES
  deferred,           \* the Deferred part of the object: state, value, error
  taskId,             \* this.taskId
  timeout,            \* this.timeout: None, "active", "elapsed", "cancelled"
  isCancelConfirmed,  \* this.isCancelConfirmed
  pc,                 \* where start() is suspended
  inflight,           \* remote calls issued and not yet answered
  log,                \* calls of notificationService.logException
  taskInfo,           \* the last AsyncTaskInfo received by start()
  issued,             \* history: remote calls issued and delays started
  hist                \* history: cancel() invocations and remote answers

vars == <<deferred, taskId, timeout, isCancelConfirmed, pc, inflight, log,
          taskInfo, issued, hist>>

\* ------------------------------------------------------ Deferred (utils)
isInProgress(d) == d.state \in {PENDING, CANCELLING}

isFinished(d) == d.state \in {RESOLVED, REJECTED, CANCELLED}

toResolved(d, v) ==
  IF d.state \in {PENDING, CANCELLING}
  THEN [d EXCEPT !.state = RESOLVED, !.value = v]
  ELSE [d EXCEPT !.fault = TRUE]

toRejected(d, e) ==
  IF d.state \in {PENDING, CANCELLING}
  THEN [d EXCEPT !.state = REJECTED, !.error = e]
  ELSE [d EXCEPT !.fault = TRUE]

toCancelling(d) == [d EXCEPT !.state = CANCELLING]

toCancelled(d) == [d EXCEPT !.state = CANCELLED]

toPending(d) == [d EXCEPT !.state = PENDING]

\* CancellablePromise.cancel(): only an active delay is affected
timeoutCancel(t) == IF t = "active" THEN "cancelled" ELSE t

\* ------------------------------------------------------- error routing
\* errors are strings, as the absent error None is
ServerInternalError(e) ==
  CASE e = "E" -> "ServerInternalError: E"
    [] OTHER -> "ServerInternalError"

NoResultError == "Error: Tasks execution returns no result"

CanceledMessage(status) == <<"Query execution has been canceled", status>>

StatusFailedMessage == <<"Failed to check async task status", None>>

CancelFailedMessage == <<"Failed to cancel async task", None>>

LogEntry(e, m) == [error |-> e, message |-> m]

\* onError rejecting whatever the state: the Cancelling branch dropped
onError_alwaysRejects(d, l, e, status) ==
  [d |-> toRejected(d, e), l |-> l]

\* onError reading every fault as a cancellation
onError_alwaysCancels(d, l, e, status) ==
  [d |-> toCancelled(d), l |-> Append(l, LogEntry(e, CanceledMessage(status)))]

\* onError(error, status): the new Deferred and the new log
onError(d, l, e, status) ==
  IF d.state = CANCELLING
  THEN [d |-> toCancelled(d), l |-> Append(l, LogEntry(e, CanceledMessage(status)))]
  ELSE [d |-> toRejected(d, e), l |-> l]

\* applyResult returning early for every status, as if it were running
applyResult_running(d, l, info) == [d |-> d, l |-> l]

\* applyResult looking at the result before the error
applyResult_resultFirst(d, l, info) ==
  IF info.running THEN [d |-> d, l |-> l]
  ELSE IF info.result # None
    THEN [d |-> toResolved(d, info.result), l |-> l]
  ELSE IF info.error # None
    THEN onError(d, l, ServerInternalError(info.error), info.status)
  ELSE onError(d, l, NoResultError, info.status)

\* applyResult(taskInfo): the new Deferred and the new log
applyResult(d, l, info) ==
  IF info.running THEN [d |-> d, l |-> l]
  ELSE IF info.error # None
    THEN onError(d, l, ServerInternalError(info.error), info.status)
  ELSE IF info.result = None
    THEN onError(d, l, NoResultError, info.status)
  ELSE [d |-> toResolved(d, info.result), l |-> l]

\* cancelAsync without the isCancelConfirmed check
cancelAsyncCalls_noGate(confirmed) == TRUE

\* cancelAsync returning before the remote cancel call in every case
cancelAsyncCalls_never(confirmed) == FALSE

\* cancelAsync(taskId): TRUE when it goes on to the remote cancel call
cancelAsyncCalls(confirmed) == ~confirmed

\* the catch block of cancelAsync without the roll back to Pending
cancelAsyncCatch_noRollback(d, l, e) ==
  [d |-> d, l |-> Append(l, LogEntry(e, CancelFailedMessage))]

\* cancelAsync(taskId), the catch block: the new Deferred and the new log
cancelAsyncCatch(d, l, e) ==
  IF d.state = CANCELLING
  THEN [d |-> toPending(d), l |-> Append(l, LogEntry(e, CancelFailedMessage))]
  ELSE [d |-> d, l |-> l]

\* ------------------------------------------------------- remote calls
Call(op, id) == [op |-> op, taskId |-> id]

RECURSIVE Remove(_, _)
Remove(s, op) ==
  IF s = <<>> THEN <<>>
  ELSE IF Head(s).op = op THEN Tail(s)
  ELSE <<Head(s)>> \o Remove(Tail(s), op)

HasCall(op) == \E i \in 1..Len(inflight) : inflight[i].op = op

\* the loop running only while the result is Pending
LoopTop_pendingOnly(d, confirmed, id, rest) ==
  IF d.state # PENDING
  THEN /\ pc' = "done"
       /\ inflight' = rest
       /\ issued' = issued
  ELSE /\ issued.status < MaxStatusCalls
       /\ pc' = "status"
       /\ inflight' = Append(rest, Call("status", id))
       /\ issued' = [issued EXCEPT !.status = @ + 1]

\* The poll loop from its condition to the next await, entered with the
\* Deferred d, the flag confirmed and the remote calls rest still in flight.
LoopTop(d, confirmed, id, rest) ==
  IF ~isInProgress(d)
  THEN /\ pc' = "done"
       /\ inflight' = rest
       /\ issued' = issued
  ELSE IF d.state = CANCELLING /\ cancelAsyncCalls(confirmed)
  THEN /\ pc' = "cancelLoop"
       /\ inflight' = Append(rest, Call("cancel", id))
       /\ issued' = [issued EXCEPT !.cancel = @ + 1]
  ELSE /\ issued.status < MaxStatusCalls
       /\ pc' = "status"
       /\ inflight' = Append(rest, Call("status", id))
       /\ issued' = [issued EXCEPT !.status = @ + 1]

\* ---------------------------------------------------------------- Init
Init ==
  /\ deferred = [state |-> PENDING, value |-> None, error |-> None, fault |-> FALSE]
  /\ taskId = None
  /\ timeout = None
  /\ isCancelConfirmed = FALSE
  /\ pc = "idle"
  /\ inflight = <<>>
  /\ log = <<>>
  /\ taskInfo = NoInfo
  /\ issued = [submit |-> 0, status |-> 0, cancel |-> 0, delay |-> 0]
  /\ hist = [cancelCalls |-> 0, cancelAt |-> {}, submit |-> None, submitInfo |-> NoInfo,
             statusAnswers |-> 0, statusRunning |-> 0, statusFail |-> 0,
             cancelOk |-> 0, cancelFail |-> 0]

\* ------------------------------------------------------------- start()
\* start() up to the await of executeQueryAsync
Start ==
  /\ pc = "idle"
  /\ pc' = "submit"
  /\ inflight' = Append(inflight, Call("submit", None))
  /\ issued' = [issued EXCEPT !.submit = @ + 1]
  /\ UNCHANGED <<deferred, taskId, timeout, isCancelConfirmed, log, taskInfo, hist>>

\* executeQueryAsync returned info: applyResult, taskId, the post-submit
\* cancel check, the isFinished return and the entry of the loop
SubmitReturn ==
  /\ pc = "submit"
  /\ HasCall("submit")
  /\ \E info \in RemoteAnswers :
       LET r == applyResult(deferred, log, info)
           rest == Remove(inflight, "submit")
       IN /\ taskInfo' = info
          /\ deferred' = r.d
          /\ log' = r.l
          /\ taskId' = info.id
          /\ hist' = [hist EXCEPT !.submit = "ok", !.submitInfo = info]
          /\ IF r.d.state = CANCELLING /\ cancelAsyncCalls(isCancelConfirmed)
             THEN /\ pc' = "cancelSubmit"
                  /\ inflight' = Append(rest, Call("cancel", info.id))
                  /\ issued' = [issued EXCEPT !.cancel = @ + 1]
             ELSE IF isFinished(r.d)
             THEN /\ pc' = "done"
                  /\ inflight' = rest
                  /\ issued' = issued
             ELSE LoopTop(r.d, isCancelConfirmed, info.id, rest)
  /\ UNCHANGED <<timeout, isCancelConfirmed>>

\* the catch of the submit only logging the fault and falling into the loop
SubmitThrow_logsOnly ==
  /\ pc = "submit"
  /\ HasCall("submit")
  /\ \E e \in NetErrors : log' = Append(log, LogEntry(e, StatusFailedMessage))
  /\ LoopTop(deferred, isCancelConfirmed, taskId, Remove(inflight, "submit"))
  /\ hist' = [hist EXCEPT !.submit = "failed"]
  /\ UNCHANGED <<deferred, taskId, timeout, isCancelConfirmed, taskInfo>>

\* executeQueryAsync threw: onError and return
SubmitThrow ==
  /\ pc = "submit"
  /\ HasCall("submit")
  /\ \E e \in NetErrors :
       LET r == onError(deferred, log, e, None)
       IN /\ deferred' = r.d
          /\ log' = r.l
  /\ pc' = "done"
  /\ inflight' = Remove(inflight, "submit")
  /\ hist' = [hist EXCEPT !.submit = "failed"]
  /\ UNCHANGED <<taskId, timeout, isCancelConfirmed, taskInfo, issued>>

\* cancelQueryAsync returned: the flag is set, start() goes on to the loop
CancelReturn ==
  /\ pc \in {"cancelSubmit", "cancelLoop"}
  /\ HasCall("cancel")
  /\ isCancelConfirmed' = TRUE
  /\ hist' = [hist EXCEPT !.cancelOk = @ + 1]
  /\ IF pc = "cancelSubmit" /\ isFinished(deferred)
     THEN /\ pc' = "done"
          /\ inflight' = Remove(inflight, "cancel")
          /\ issued' = issued
     ELSE IF pc = "cancelSubmit"
     THEN LoopTop(deferred, TRUE, taskId, Remove(inflight, "cancel"))
     ELSE /\ issued.status < MaxStatusCalls
          /\ pc' = "status"
          /\ inflight' = Append(Remove(inflight, "cancel"), Call("status", taskId))
          /\ issued' = [issued EXCEPT !.status = @ + 1]
  /\ UNCHANGED <<deferred, taskId, timeout, log, taskInfo>>

\* a failed remote cancel call repeated at once
CancelThrow_retries ==
  /\ pc \in {"cancelSubmit", "cancelLoop"}
  /\ HasCall("cancel")
  /\ \E e \in NetErrors : log' = Append(log, LogEntry(e, CancelFailedMessage))
  /\ issued.cancel < MaxCancelCalls
  /\ inflight' = Append(Remove(inflight, "cancel"), Call("cancel", taskId))
  /\ issued' = [issued EXCEPT !.cancel = @ + 1]
  /\ hist' = [hist EXCEPT !.cancelFail = @ + 1]
  /\ UNCHANGED <<deferred, taskId, timeout, isCancelConfirmed, pc, taskInfo>>

\* cancelQueryAsync threw: roll back to Pending, log, go on to the loop
CancelThrow ==
  /\ pc \in {"cancelSubmit", "cancelLoop"}
  /\ HasCall("cancel")
  /\ \E e \in NetErrors :
       LET r == cancelAsyncCatch(deferred, log, e)
           d == r.d
       IN /\ deferred' = r.d
          /\ log' = r.l
          /\ IF pc = "cancelSubmit" /\ isFinished(d)
             THEN /\ pc' = "done"
                  /\ inflight' = Remove(inflight, "cancel")
                  /\ issued' = issued
             ELSE IF pc = "cancelSubmit"
             THEN LoopTop(d, isCancelConfirmed, taskId, Remove(inflight, "cancel"))
             ELSE /\ issued.status < MaxStatusCalls
                  /\ pc' = "status"
                  /\ inflight' = Append(Remove(inflight, "cancel"), Call("status", taskId))
                  /\ issued' = [issued EXCEPT !.status = @ + 1]
  /\ hist' = [hist EXCEPT !.cancelFail = @ + 1]
  /\ UNCHANGED <<taskId, timeout, isCancelConfirmed, taskInfo>>

\* the poll loop without its delay: the next iteration starts at once
StatusReturn_noDelay ==
  /\ pc = "status"
  /\ HasCall("status")
  /\ \E info \in RemoteAnswers :
       LET r == applyResult(deferred, log, info)
       IN /\ taskInfo' = info
          /\ deferred' = r.d
          /\ log' = r.l
          /\ hist' = [hist EXCEPT !.statusAnswers = @ + 1,
                                  !.statusRunning = IF info.running THEN @ + 1 ELSE @]
          /\ LoopTop(r.d, isCancelConfirmed, taskId, Remove(inflight, "status"))
  /\ UNCHANGED <<taskId, timeout, isCancelConfirmed>>

\* getQueryStatusAsync returned info: applyResult, return when finished,
\* otherwise start the delay
StatusReturn ==
  /\ pc = "status"
  /\ HasCall("status")
  /\ \E info \in RemoteAnswers :
       LET r == applyResult(deferred, log, info)
       IN /\ taskInfo' = info
          /\ deferred' = r.d
          /\ log' = r.l
          /\ hist' = [hist EXCEPT !.statusAnswers = @ + 1,
                                  !.statusRunning = IF info.running THEN @ + 1 ELSE @]
          /\ IF isFinished(r.d)
             THEN /\ pc' = "done"
                  /\ timeout' = timeout
                  /\ issued' = issued
             ELSE /\ pc' = "delay"
                  /\ timeout' = "active"
                  /\ issued' = [issued EXCEPT !.delay = @ + 1]
  /\ inflight' = Remove(inflight, "status")
  /\ UNCHANGED <<taskId, isCancelConfirmed>>

\* a failed status check routed to onError instead of the log
StatusThrow_onError ==
  /\ pc = "status"
  /\ HasCall("status")
  /\ \E e \in NetErrors :
       LET r == onError(deferred, log, e, None)
       IN /\ deferred' = r.d
          /\ log' = r.l
  /\ pc' = "done"
  /\ inflight' = Remove(inflight, "status")
  /\ hist' = [hist EXCEPT !.statusFail = @ + 1]
  /\ UNCHANGED <<taskId, timeout, isCancelConfirmed, taskInfo, issued>>

\* getQueryStatusAsync threw: log and start the delay
StatusThrow ==
  /\ pc = "status"
  /\ HasCall("status")
  /\ \E e \in NetErrors : log' = Append(log, LogEntry(e, StatusFailedMessage))
  /\ pc' = "delay"
  /\ timeout' = "active"
  /\ issued' = [issued EXCEPT !.delay = @ + 1]
  /\ inflight' = Remove(inflight, "status")
  /\ hist' = [hist EXCEPT !.statusFail = @ + 1]
  /\ UNCHANGED <<deferred, taskId, isCancelConfirmed, taskInfo>>

\* the delay elapsed: next iteration
DelayElapsed ==
  /\ pc = "delay"
  /\ timeout = "active"
  /\ timeout' = "elapsed"
  /\ LoopTop(deferred, isCancelConfirmed, taskId, inflight)
  /\ UNCHANGED <<deferred, taskId, isCancelConfirmed, log, taskInfo, hist>>

\* the delay was cancelled: the rejection is swallowed, next iteration
DelayCancelled ==
  /\ pc = "delay"
  /\ timeout = "cancelled"
  /\ LoopTop(deferred, isCancelConfirmed, taskId, inflight)
  /\ UNCHANGED <<deferred, taskId, timeout, isCancelConfirmed, log, taskInfo, hist>>

\* ------------------------------------------------------------ cancel()
\* cancel() issuing the remote cancel call itself
cancel_remote ==
  /\ hist.cancelCalls < MaxCancelCalls
  /\ hist' = [hist EXCEPT !.cancelCalls = @ + 1,
                          !.cancelAt = @ \cup {<<deferred.state, pc>>}]
  /\ IF deferred.state # PENDING
     THEN UNCHANGED <<deferred, timeout, inflight, issued>>
     ELSE /\ deferred' = toCancelling(deferred)
          /\ timeout' = IF timeout # None THEN timeoutCancel(timeout) ELSE timeout
          /\ inflight' = Append(inflight, Call("cancel", taskId))
          /\ issued' = [issued EXCEPT !.cancel = @ + 1]
  /\ UNCHANGED <<taskId, isCancelConfirmed, pc, log, taskInfo>>

\* cancel() without its state check
cancel_noGuard ==
  /\ hist.cancelCalls < MaxCancelCalls
  /\ hist' = [hist EXCEPT !.cancelCalls = @ + 1,
                          !.cancelAt = @ \cup {<<deferred.state, pc>>}]
  /\ deferred' = toCancelling(deferred)
  /\ timeout' = IF timeout # None THEN timeoutCancel(timeout) ELSE timeout
  /\ UNCHANGED <<taskId, isCancelConfirmed, pc, inflight, log, taskInfo, issued>>

\* cancel() checking isInProgress instead of the Pending state
cancel_guardInProgress ==
  /\ hist.cancelCalls < MaxCancelCalls
  /\ hist' = [hist EXCEPT !.cancelCalls = @ + 1,
                          !.cancelAt = @ \cup {<<deferred.state, pc>>}]
  /\ IF ~isInProgress(deferred)
     THEN UNCHANGED <<deferred, timeout>>
     ELSE /\ deferred' = toCancelling(deferred)
          /\ timeout' = IF timeout # None THEN timeoutCancel(timeout) ELSE timeout
  /\ UNCHANGED <<taskId, isCancelConfirmed, pc, inflight, log, taskInfo, issued>>

\* cancel() leaving the delay alone
cancel_keepsTimer ==
  /\ hist.cancelCalls < MaxCancelCalls
  /\ hist' = [hist EXCEPT !.cancelCalls = @ + 1,
                          !.cancelAt = @ \cup {<<deferred.state, pc>>}]
  /\ IF deferred.state # PENDING
     THEN UNCHANGED deferred
     ELSE deferred' = toCancelling(deferred)
  /\ UNCHANGED <<taskId, timeout, isCancelConfirmed, pc, inflight, log, taskInfo, issued>>

cancel ==
  /\ hist.cancelCalls < MaxCancelCalls
  /\ hist' = [hist EXCEPT !.cancelCalls = @ + 1,
                          !.cancelAt = @ \cup {<<deferred.state, pc>>}]
  /\ IF deferred.state # PENDING
     THEN UNCHANGED <<deferred, timeout>>
     ELSE /\ deferred' = toCancelling(deferred)
          /\ timeout' = IF timeout # None THEN timeoutCancel(timeout) ELSE timeout
  /\ UNCHANGED <<taskId, isCancelConfirmed, pc, inflight, log, taskInfo, issued>>

Next ==
  \/ Start
  \/ SubmitReturn
  \/ SubmitThrow
  \/ CancelReturn
  \/ CancelThrow
  \/ StatusReturn
  \/ StatusThrow
  \/ DelayElapsed
  \/ DelayCancelled
  \/ cancel

Spec == Init /\ [][Next]_vars

TypeOK ==
  /\ deferred.state \in EDeferredState
  /\ taskId \in TaskIds \cup {None}
  /\ timeout \in {None, "active", "elapsed", "cancelled"}
  /\ isCancelConfirmed \in BOOLEAN
  /\ pc \in {"idle", "submit", "cancelSubmit", "cancelLoop", "status", "delay", "done"}
\* ---------------------------------------------------------------- claims
CancelInvoked == hist'.cancelCalls # hist.cancelCalls

StatusAnswered == hist'.statusAnswers # hist.statusAnswers

StatusFailed == hist'.statusFail # hist.statusFail

CancelFailed == hist'.cancelFail # hist.cancelFail

SubmitFailed == hist.submit = None /\ hist'.submit = "failed"

\* C1: at most one remote call (submit, get-status or cancel-task) is in
\* flight at any time, and a step of cancel() issues no remote call: it
\* changes only the result state and the timer.
C1_OneCallInFlight ==
  /\ [](Len(inflight) <= 1)
  /\ [][CancelInvoked =>
          /\ inflight' = inflight
          /\ issued' = issued
          /\ UNCHANGED <<taskId, isCancelConfirmed, pc, log, taskInfo>>]_vars

C1_Witness ==
  /\ hist.cancelCalls >= 2
  /\ <<PENDING, "status">> \in hist.cancelAt
  /\ Len(inflight) = 1
  /\ inflight[1].op = "cancel"

\* C2 as stated: over the whole lifecycle at most one remote cancel-task
\* call is issued, whether a remote cancel call succeeds or fails.
C2_AtMostOneRemoteCancel == issued.cancel <= 1

\* C2 amended: once a remote cancel call has succeeded no further one is
\* issued; at most one succeeds, and every remote cancel call but the first
\* follows a failed one.
C2_NoCancelAfterConfirmed ==
  /\ [][isCancelConfirmed => issued'.cancel = issued.cancel]_vars
  /\ [](hist.cancelOk <= 1)
  /\ [](issued.cancel <= hist.cancelFail + 1)

C2_Witness ==
  /\ isCancelConfirmed
  /\ deferred.state = CANCELLING
  /\ hist.cancelCalls >= 2
  /\ issued.cancel = 1
  /\ issued.status >= 2
  /\ pc = "status"

\* C3: after cancel() and a successful remote cancel call, the next status
\* response received that reports running=false with an error makes the
\* result Cancelled, and start() never ends Rejected on such a response.
C3_ConfirmedCancelEndsCancelled ==
  /\ [][(isCancelConfirmed /\ StatusAnswered
          /\ ~taskInfo'.running /\ taskInfo'.error # None)
        => (deferred'.state = CANCELLED /\ pc' = "done")]_vars
  /\ []((pc = "done" /\ isCancelConfirmed /\ ~taskInfo.running /\ taskInfo.error # None)
        => deferred.state = CANCELLED)

C3_Witness ==
  /\ isCancelConfirmed
  /\ pc = "done"
  /\ deferred.state = CANCELLED
  /\ taskInfo.error # None
  /\ hist.statusFail >= 1
  /\ hist.cancelCalls >= 2

\* C4: a failed remote cancel call takes the result from Cancelling back to
\* Pending, leaves isCancelConfirmed false and is logged; while no further
\* cancel() has moved the result, a status response with a result ends in
\* Resolved with that result and one with an error ends in Rejected.
C4_FailedCancelRollsBack ==
  /\ [][CancelFailed =>
          /\ deferred.state = CANCELLING
          /\ deferred'.state = PENDING
          /\ ~isCancelConfirmed'
          /\ \E e \in NetErrors : log' = Append(log, LogEntry(e, CancelFailedMessage))]_vars
  /\ [][(hist.cancelFail >= 1 /\ deferred.state = PENDING /\ StatusAnswered
          /\ ~taskInfo'.running)
        => IF taskInfo'.error # None
           THEN /\ deferred'.state = REJECTED
                /\ deferred'.error = ServerInternalError(taskInfo'.error)
           ELSE IF taskInfo'.result # None
           THEN /\ deferred'.state = RESOLVED
                /\ deferred'.value = taskInfo'.result
           ELSE deferred'.state = REJECTED]_vars

C4_Witness ==
  /\ hist.cancelFail >= 1
  /\ ~isCancelConfirmed
  /\ pc = "done"
  /\ deferred.state = RESOLVED
  /\ deferred.value = taskInfo.result
  /\ hist.statusAnswers >= 1

\* C5: cancel() on a Pending result moves it to Cancelling; on any other
\* state it changes neither the result, the task identifier,
\* isCancelConfirmed nor the delay, and no remote call is issued.
C5_CancelOnlyFromPending ==
  [][CancelInvoked =>
       IF deferred.state = PENDING
       THEN deferred'.state = CANCELLING
       ELSE /\ UNCHANGED <<deferred, taskId, isCancelConfirmed, timeout>>
            /\ UNCHANGED <<inflight, issued, pc>>]_vars

C5_Witness ==
  /\ <<PENDING, "status">> \in hist.cancelAt
  /\ <<CANCELLING, "delay">> \in hist.cancelAt
  /\ \E t \in {RESOLVED, REJECTED, CANCELLED} : <<t, "done">> \in hist.cancelAt

\* C6: a terminal result (Resolved, Rejected or Cancelled) never changes
\* again, and it carries exactly one of value, error or cancellation.
C6_TerminalIsFinal ==
  /\ [][isFinished(deferred) => deferred' = deferred]_vars
  /\ [](deferred.state = RESOLVED => (deferred.value # None /\ deferred.error = None))
  /\ [](deferred.state = REJECTED => (deferred.error # None /\ deferred.value = None))
  /\ [](deferred.state = CANCELLED => (deferred.error = None /\ deferred.value = None))
  /\ [](isInProgress(deferred) => (deferred.error = None /\ deferred.value = None))

C6_Witness ==
  /\ <<RESOLVED, "done">> \in hist.cancelAt
  /\ hist.cancelCalls >= 2
  /\ deferred.state = RESOLVED

\* C7: when the submit succeeds and its response reports running=false with
\* a result (the result case: no error), start() ends Resolved with that
\* result, no get-status call was issued and no delay started.
C7_FastCompletion ==
  (hist.submit = "ok" /\ ~hist.submitInfo.running
     /\ hist.submitInfo.error = None /\ hist.submitInfo.result # None)
  => /\ pc = "done"
     /\ deferred.state = RESOLVED
     /\ deferred.value = hist.submitInfo.result
     /\ issued.status = 0
     /\ issued.delay = 0
     /\ timeout = None

C7_Witness ==
  /\ hist.submit = "ok"
  /\ ~hist.submitInfo.running
  /\ hist.submitInfo.result = "R2"
  /\ <<PENDING, "submit">> \in hist.cancelAt
  /\ deferred.state = RESOLVED

\* C8: when the submit response reports running=true and the remote answers
\* N status checks with running=true and the next with running=false and a
\* result R, start() ends Resolved with R after exactly N+1 get-status calls
\* and N delays, one delay between two consecutive status calls.
C8_PollCount ==
  /\ (pc = "status" => issued.delay = issued.status - 1)
  /\ (pc = "delay" => issued.delay = issued.status)
  /\ (pc = "done" /\ hist.submit = "ok" /\ hist.submitInfo.running
        /\ hist.statusFail = 0
        /\ ~taskInfo.running /\ taskInfo.error = None /\ taskInfo.result # None)
     => /\ issued.status = hist.statusRunning + 1
        /\ issued.delay = hist.statusRunning
        /\ deferred.state = RESOLVED
        /\ deferred.value = taskInfo.result

C8_Witness ==
  /\ pc = "done"
  /\ hist.submitInfo.running
  /\ hist.statusFail = 0
  /\ hist.statusRunning = 2
  /\ issued.status = 3
  /\ issued.delay = 2
  /\ deferred.state = RESOLVED
  /\ deferred.value = "R1"

\* C9: a failed submit goes through onError (Cancelled when the result is
\* Cancelling, Rejected otherwise), start() returns with a terminal result,
\* and no get-status call, remote cancel call or delay is ever issued.
C9_SubmitFailure ==
  /\ [][SubmitFailed =>
          /\ deferred'.state = IF deferred.state = CANCELLING THEN CANCELLED ELSE REJECTED
          /\ pc' = "done"]_vars
  /\ [](hist.submit = "failed" =>
          /\ pc = "done"
          /\ deferred.state \in {REJECTED, CANCELLED}
          /\ inflight = <<>>
          /\ taskId = None
          /\ timeout = None
          /\ issued.status = 0 /\ issued.cancel = 0 /\ issued.delay = 0)

C9_Witness ==
  /\ hist.submit = "failed"
  /\ deferred.state = CANCELLED
  /\ hist.cancelCalls >= 2

\* C10: a get-status call that throws leaves the result unchanged, is
\* logged, and start() goes on to the delay and then to another iteration;
\* a remote cancel call is issued only after the submit or after a delay,
\* never right after the failed status check.
C10_StatusFailureIsTransient ==
  /\ [][StatusFailed =>
          /\ deferred' = deferred
          /\ \E e \in NetErrors : log' = Append(log, LogEntry(e, StatusFailedMessage))
          /\ pc' = "delay"
          /\ timeout' = "active"
          /\ inflight' = <<>>
          /\ issued'.cancel = issued.cancel]_vars
  /\ [][(pc = "delay" /\ pc' # "delay") => pc' \in {"status", "cancelLoop"}]_vars
  /\ [][issued'.cancel # issued.cancel => pc \in {"submit", "delay"}]_vars

C10_Witness ==
  /\ hist.statusFail >= 1
  /\ <<PENDING, "status">> \in hist.cancelAt
  /\ deferred.state = CANCELLING
  /\ pc = "cancelLoop"

\* C11: start() has returned only when the result is terminal: on every
\* return path the result is Resolved, Rejected or Cancelled, and while it
\* is Pending or Cancelling start() is still in its sequence.
C11_ReturnsOnlyWhenTerminal ==
  /\ [](pc = "done" => isFinished(deferred))
  /\ [][(pc # "done" /\ pc' = "done") => deferred'.state \in {RESOLVED, REJECTED, CANCELLED}]_vars
  /\ [][(isInProgress(deferred') /\ pc \in {"status", "delay", "cancelLoop"})
          => pc' \in {"status", "delay", "cancelLoop"}]_vars

C11_Witness ==
  /\ pc = "done"
  /\ deferred.state = CANCELLED
  /\ issued.status = 2
  /\ issued.delay = 1
  /\ hist.cancelFail = 1

\* ------------------------------------------- applyResult on its own
\* applyResult applied once to any status, on a result in progress
ApplyInit ==
  /\ deferred \in [state : {PENDING, CANCELLING}, value : {None}, error : {None},
                   fault : {FALSE}]
  /\ taskInfo \in AsyncTaskInfo
  /\ log \in {<<>>, <<LogEntry("NetErr", StatusFailedMessage)>>}
  /\ taskId = None
  /\ timeout = None
  /\ isCancelConfirmed = FALSE
  /\ pc = "apply"
  /\ inflight = <<>>
  /\ issued = [submit |-> 0, status |-> 0, cancel |-> 0, delay |-> 0]
  /\ hist = [cancelCalls |-> 0, cancelAt |-> {}, submit |-> None, submitInfo |-> NoInfo,
             statusAnswers |-> 0, statusRunning |-> 0, statusFail |-> 0,
             cancelOk |-> 0, cancelFail |-> 0]

ApplyResultStep ==
  /\ pc = "apply"
  /\ LET r == applyResult(deferred, log, taskInfo)
     IN /\ deferred' = r.d
        /\ log' = r.l
  /\ pc' = "applied"
  /\ UNCHANGED <<taskId, timeout, isCancelConfirmed, inflight, taskInfo, issued, hist>>

ApplySpec == ApplyInit /\ [][ApplyResultStep]_vars

\* C12: applying a status to a result in progress: running=true changes
\* nothing; running=false with an error gives Cancelled from Cancelling and
\* Rejected otherwise; running=false with neither error nor result gives
\* the same states as the error case; running=false with a result and no
\* error gives Resolved with that result, also from Cancelling.
C12_ApplyResultCases ==
  [][pc = "apply" =>
       IF taskInfo.running
       THEN deferred' = deferred /\ log' = log
       ELSE IF taskInfo.error # None
       THEN /\ deferred'.state = IF deferred.state = CANCELLING THEN CANCELLED ELSE REJECTED
            /\ deferred'.value = None
            /\ deferred.state = PENDING => deferred'.error = ServerInternalError(taskInfo.error)
       ELSE IF taskInfo.result = None
       THEN /\ deferred'.state = IF deferred.state = CANCELLING THEN CANCELLED ELSE REJECTED
            /\ deferred'.value = None
            /\ deferred.state = PENDING => deferred'.error = NoResultError
       ELSE /\ deferred'.state = RESOLVED
            /\ deferred'.value = taskInfo.result
            /\ deferred'.error = None
            /\ log' = log]_vars

C12_Witness ==
  /\ pc = "applied"
  /\ deferred.state = CANCELLED
  /\ ~taskInfo.running
  /\ taskInfo.error = None
  /\ taskInfo.result = None
  /\ Len(log) = 2

\* C13: every transition the controller makes on the result is legal: to
\* Resolved or Rejected only from Pending or Cancelling, to Cancelled or
\* back to Pending only from Cancelling, to Cancelling only from Pending;
\* the fault of a transition from a terminal state is never raised.
C13_LegalTransitions ==
  /\ [](~deferred.fault)
  /\ [][deferred'.state # deferred.state =>
          CASE deferred'.state \in {RESOLVED, REJECTED} -> deferred.state \in {PENDING, CANCELLING}
            [] deferred'.state \in {CANCELLED, PENDING} -> deferred.state = CANCELLING
            [] deferred'.state = CANCELLING -> deferred.state = PENDING]_vars

C13_Witness ==
  /\ hist.cancelFail = 1
  /\ hist.cancelOk = 1
  /\ deferred.state = CANCELLED
  /\ \E t \in {RESOLVED, REJECTED, CANCELLED} : <<t, "done">> \in hist.cancelAt

\* C14: cancel() on a Pending result during an active delay ends the delay
\* at once and leaves the result Cancelling; start() then goes round the
\* loop with the result unchanged and the next remote call it issues is the
\* cancel-task call, before any get-status call.
C14_CancelWakesLoop ==
  /\ [][(CancelInvoked /\ deferred.state = PENDING /\ pc = "delay" /\ timeout = "active")
        => (timeout' = "cancelled" /\ deferred'.state = CANCELLING /\ pc' = "delay")]_vars
  /\ [](timeout = "cancelled" /\ pc = "delay"
         => (deferred.state = CANCELLING /\ ~isCancelConfirmed /\ inflight = <<>>))
  /\ [][(timeout = "cancelled" /\ pc = "delay" /\ ~CancelInvoked)
        => /\ deferred' = deferred
           /\ pc' = "cancelLoop"
           /\ inflight' = <<Call("cancel", taskId)>>
           /\ issued'.status = issued.status]_vars

C14_Witness ==
  /\ <<PENDING, "delay">> \in hist.cancelAt
  /\ timeout = "cancelled"
  /\ pc = "cancelLoop"
  /\ deferred.state = CANCELLING

C16_NoAutomaticRetry ==
  /\ [](issued.submit <= 1)
  /\ [][pc # "idle" => issued'.submit = issued.submit]_vars
  /\ [][CancelFailed => (deferred'.state = PENDING /\ issued'.cancel = issued.cancel)]_vars
  /\ [][(deferred.state = PENDING /\ deferred'.state = CANCELLING) => CancelInvoked]_vars
  /\ [][issued'.cancel # issued.cancel => deferred'.state = CANCELLING]_vars
  /\ [](issued.cancel <= hist.cancelCalls)

C16_Witness ==
  /\ hist.cancelFail = 2
  /\ issued.cancel = 2
  /\ hist.cancelCalls = 2
  /\ issued.status >= 2
  /\ deferred.state = PENDING

\* C17: isCancelConfirmed, once true, stays true, and from then on the
\* result is Cancelling, Cancelled or Resolved: never Pending, never
\* Rejected.
C17_AfterConfirmedCancel ==
  /\ [][isCancelConfirmed => isCancelConfirmed']_vars
  /\ [](isCancelConfirmed => deferred.state \in {CANCELLING, CANCELLED, RESOLVED})

C17_Witness ==
  /\ isCancelConfirmed
  /\ deferred.state = RESOLVED
  /\ hist.statusFail >= 1

\* C18: a get-status or remote cancel call is in flight only after the
\* submit returned successfully and with the recorded task identifier, also
\* when cancel() came before or during the submit; a remote cancel call is
\* issued only when the result is Cancelling and isCancelConfirmed is false.
C18_CallsFollowSubmit ==
  /\ [](\A i \in 1..Len(inflight) :
          inflight[i].op \in {"status", "cancel"} =>
            /\ hist.submit = "ok"
            /\ taskId \in TaskIds
            /\ inflight[i].taskId = taskId)
  /\ []((issued.status > 0 \/ issued.cancel > 0) => (hist.submit = "ok" /\ taskId # None))
  /\ [][issued'.cancel # issued.cancel =>
          (deferred'.state = CANCELLING /\ ~isCancelConfirmed /\ ~isCancelConfirmed')]_vars

C18_Witness ==
  /\ <<PENDING, "idle">> \in hist.cancelAt
  /\ pc = "cancelSubmit"
  /\ inflight = <<Call("cancel", "task1")>>

\* ------------------------------------------------ the fair lifecycle
\* start() is called, every remote call returns or throws and every delay
\* elapses or is cancelled: the sequence of start() always goes on.
StartSequence ==
  \/ Start
  \/ SubmitReturn
  \/ SubmitThrow
  \/ CancelReturn
  \/ CancelThrow
  \/ StatusReturn
  \/ StatusThrow
  \/ DelayElapsed
  \/ DelayCancelled

FairSpec == Init /\ [][Next]_vars /\ WF_vars(StartSequence)

\* C19: under the fair lifecycle, whenever the result is Cancelling and no
\* remote cancel call has been acknowledged, eventually a remote cancel
\* call is in flight for the task or the result is terminal.
C19_CancelIsObserved ==
  (deferred.state = CANCELLING /\ ~isCancelConfirmed)
    ~> (HasCall("cancel") \/ isFinished(deferred))

C19_Witness ==
  /\ <<PENDING, "submit">> \in hist.cancelAt
  /\ <<PENDING, "delay">> \in hist.cancelAt
  /\ hist.cancelFail = 1
  /\ pc = "cancelLoop"
  /\ HasCall("cancel")

\* C20: a new delay starts only when the previous one is over and no delay
\* is active while a remote call is in flight; a delay is cancelled only by
\* a cancel() that finds the result Pending and the delay active; so a
\* delay that is active while the result is Cancelling is never cancelled:
\* it ends by elapsing, and only then is the remote cancel call issued.
C20_DelayStartedWhileCancelling ==
  /\ [][issued'.delay # issued.delay =>
          (timeout # "active" /\ timeout' = "active" /\ issued'.delay = issued.delay + 1)]_vars
  /\ [](timeout = "active" => (pc = "delay" /\ inflight = <<>>))
  /\ [][(timeout' = "cancelled" /\ timeout # "cancelled")
        => (CancelInvoked /\ deferred.state = PENDING /\ timeout = "active")]_vars
  /\ [][(CancelInvoked /\ timeout # "active") => timeout' = timeout]_vars
  /\ [][(pc = "delay" /\ timeout = "active" /\ deferred.state = CANCELLING)
        => /\ deferred' = deferred
           /\ timeout' \in {"active", "elapsed"}
           /\ issued'.cancel # issued.cancel => timeout' = "elapsed"
           /\ pc' # "delay" => timeout' = "elapsed"]_vars

C20_Witness ==
  /\ <<PENDING, "status">> \in hist.cancelAt
  /\ <<CANCELLING, "delay">> \in hist.cancelAt
  /\ timeout = "elapsed"
  /\ pc = "cancelLoop"
  /\ issued.cancel = 1
====
